---- MODULE Spec2Model ----
(***************************************************************************)
(* The two client-side scripts of the recipe site:                         *)
(*   assets/js/recipe-filter.js  the recipe filter engine                  *)
(*   assets/js/includes.js       the partial-include loader                *)
(* The page (its cards, its anchor elements, its placeholders) is chosen   *)
(* by the initial predicate; the handlers of the two scripts are the       *)
(* actions.                                                                *)
(***************************************************************************)
EXTENDS Naturals, Sequences, FiniteSets, TLC

(***************************************************************************)
(* Bounds of the model.                                                    *)
(***************************************************************************)
\* most recipe cards on a page of Spec
MaxCards == 2
\* longest attribute string (in atoms) of the card of SpecMarkup
MaxAttrLen == 4
\* most [data-include] placeholders on a page of SpecIncludes
MaxPlaceholders == 2
\* deepest nesting of a page below the site root
MaxDepth == 2

(***************************************************************************)
(* Text.  An attribute string is a sequence of atoms; an atom is a comma,  *)
(* a space, or a run of tag characters.  Join gives the string the atoms   *)
(* spell, so that " halal" and "halal" are different tags.                 *)
(***************************************************************************)
Comma == ","
Space == " "
DietaryWords == {"vegan", "halal"}
Atoms == DietaryWords \cup {Comma, Space}

RECURSIVE Join(_)
Join(s) == IF s = <<>> THEN "" ELSE Head(s) \o Join(Tail(s))

StrsUpTo(A, n) == UNION {[1..k -> A] : k \in 0..n}

\* String.prototype.split(','): the pieces between the commas, in order;
\* a string without a comma (the empty one too) gives one piece.
RECURSIVE SplitFrom(_, _)
SplitFrom(s, cur) ==
  IF s = <<>> THEN <<cur>>
  ELSE IF Head(s) = Comma THEN <<cur>> \o SplitFrom(Tail(s), <<>>)
  ELSE SplitFrom(Tail(s), Append(cur, Head(s)))

split(s) == SplitFrom(s, <<>>)

\* String.prototype.trim(): leading and trailing white space removed.
RECURSIVE TrimLeft(_)
TrimLeft(s) == IF s # <<>> /\ Head(s) = Space THEN TrimLeft(Tail(s)) ELSE s

RECURSIVE TrimRight(_)
TrimRight(s) ==
  IF s # <<>> /\ s[Len(s)] = Space THEN TrimRight(SubSeq(s, 1, Len(s) - 1)) ELSE s

trim(s) == TrimLeft(TrimRight(s))

Range(s) == {s[i] : i \in DOMAIN s}

\* a token passes filter(d => d.trim()) when its trimmed text is non-empty
Truthy(tok) == Join(trim(tok)) # ""

\* mutant: the kept tokens are trimmed
KeptTokensTrimmed(attr) ==
  [i \in DOMAIN SelectSeq(split(attr), Truthy) |-> trim(SelectSeq(split(attr), Truthy)[i])]

\* (attr || '').split(',').filter(d => d.trim()): the tokens are kept as
\* they were split; trim() is used only to decide which tokens to keep.
KeptTokens(attr) == SelectSeq(split(attr), Truthy)

ParseTags(attr) ==
  LET kept == KeptTokens(attr) IN [i \in DOMAIN kept |-> Join(kept[i])]

(***************************************************************************)
(* The page of the filter engine.                                          *)
(***************************************************************************)
\* the elements setup() and resetFilters() look up by id
AnchorIds == {"recipe-filter-form", "filtered-results-section",
              "filtered-results-grid", "result-count", "reset-filters",
              "active-filters-count", "filter-heading"}

\* the selector list of originalRecipeSections
OriginalSectionIds == {"main-dish-recipes", "side-dish-recipes",
                       "rice-recipes", "featured-recipes-section"}

\* the checkboxes of the filter form: name and value
CategoryValues == {"main-dish", "rice"}
Checkboxes == {[name |-> "category", value |-> v] : v \in CategoryValues}
              \cup {[name |-> "dietary", value |-> v] : v \in DietaryWords}

AttrNames == {"category", "dietary", "ingredients"}

Restrict(f, K) == [k \in K |-> f[k]]

\* A card's dataset: a function from the data-* attributes it carries to
\* their text (category: a string; dietary, ingredients: atom sequences).
CardsOf(Cats, Diets, Ingrs, Keys) ==
  {Restrict([category |-> c, dietary |-> d, ingredients |-> g], K) :
     c \in Cats, d \in Diets, g \in Ingrs, K \in Keys}

\* comma-separated lists without spaces, as the markup guidelines ask
WellFormedLists == {<<>>, <<"vegan">>, <<"halal">>, <<"vegan", Comma, "halal">>}

ContractCards == CardsOf(CategoryValues, WellFormedLists, {<<"vegan">>}, {AttrNames})

\* any card: attributes absent, empty, unknown or with stray spaces and commas
MarkupCards ==
  CardsOf({"", "main-dish"}, StrsUpTo(Atoms, MaxAttrLen),
          {<<"vegan", Comma>>}, {K \in SUBSET AttrNames : "ingredients" \in K})

SeqsUpTo(S, n) == UNION {[1..k -> S] : k \in 0..n}

VARIABLES
  pageCards,      \* the .recipe-card elements of the static markup, in document order
  pageSections,   \* the original recipe sections the page has
  anchors,        \* the ids of AnchorIds the page has
  ready,          \* setup() has run
  allRecipes,     \* recipe-filter.js: allRecipes
  activeFilters,  \* recipe-filter.js: activeFilters
  dom,            \* what the filter engine's handlers change in the document
  threw,          \* the last handler ended by an uncaught TypeError
  hist            \* history: the last event, and the filters and view before it

filterVars == <<pageCards, pageSections, anchors, ready, allRecipes, activeFilters, dom, threw, hist>>

\* the page and the state of includes.js
VARIABLES
  rootPath,       \* data-root-path of the page
  pageElements,   \* elements of the static markup that carry data-root-href / -src
  placeholders,   \* the [data-include] elements at page load, in document order
  included,       \* the DOMContentLoaded handler of includes.js has run
  fetchState,     \* per placeholder: "none", "pending", "reading" (response.text()), "done"
  content,        \* per placeholder: its innerHTML
  attached,       \* per placeholder: it is still in the document
  console,        \* the placeholders whose error was passed to console.error
  requests        \* the fetch() calls made so far: element and path, in order

includeVars ==
  <<rootPath, pageElements, placeholders, included, fetchState, content, attached, console,
    requests>>

vars == <<filterVars, includeVars>>

(***************************************************************************)
(* recipe-filter.js.  A handler is a sequence of steps over the machine    *)
(* state m = [dom, threw]; a step that dereferences a missing element      *)
(* throws a TypeError, and the steps after a throw do not run.             *)
(***************************************************************************)
Has(id) == id \in anchors

Throw(m) == [m EXCEPT !.threw = TRUE]

\* the document as the static markup gives it, before any handler has run
InitialMarkup(sections) ==
  [originalDisplay |-> [s \in sections |-> ""],
   sectionDisplay  |-> "none",
   grid            |-> <<>>,
   resultCount     |-> "0",
   activeCount     |-> "",
   checked         |-> [c \in Checkboxes |-> FALSE],
   scroll          |-> "top"]

\* What the user sees of the results: whether the filtered-results view is
\* shown, the cards and the count it shows, and the original sections shown.
Shown(display) == display # "none"

View(d) ==
  [filtered  |-> Shown(d.sectionDisplay),
   cards     |-> IF Shown(d.sectionDisplay) THEN d.grid ELSE <<>>,
   count     |-> IF Shown(d.sectionDisplay) THEN d.resultCount ELSE "",
   originals |-> {s \in DOMAIN d.originalDisplay : Shown(d.originalDisplay[s])}]

\* history of the last event: a box switched on, the same box switched off
\* right after ("on-off", keeping what was recorded before the pair), any
\* other change, a reset, or setup
NoBox == [name |-> "", value |-> ""]

Before(op, box) == [op |-> op, box |-> box, af |-> activeFilters, view |-> View(dom)]

HistOfChange(c, checked) ==
  IF checked THEN Before("on", c)
  ELSE IF hist.op = "on" /\ hist.box = c THEN [hist EXCEPT !.op = "on-off"]
  ELSE Before("off", c)

\* The cards of the document, in document order.  The first top-level
\* placeholder holds the header and precedes the cards of the page, the
\* other placeholders (the footer) follow them; the cards of a fragment
\* are in the document while its placeholder is.
RECURSIVE TopLevel(_)
TopLevel(p) ==
  IF placeholders[p].parent = 0 THEN p ELSE TopLevel(placeholders[p].parent)

RECURSIVE SplicedCards(_, _)
SplicedCards(p, inHeader) ==
  IF p > Len(placeholders) THEN <<>>
  ELSE (IF attached[p] /\ (TopLevel(p) = 1) = inHeader THEN content[p].cards ELSE <<>>)
         \o SplicedCards(p + 1, inHeader)

DocumentCards == SplicedCards(1, TRUE) \o pageCards \o SplicedCards(1, FALSE)

\* mutant: every .recipe-card is collected
CollectedAll(cards) == [i \in DOMAIN cards |-> i]

\* document.querySelectorAll('.recipe-card[data-category]'): the cards
\* that carry a category attribute, in document order
Collected(cards) == SelectSeq([i \in DOMAIN cards |-> i],
                           LAMBDA i : "category" \in DOMAIN cards[i])

DataOr(card, key, default) == IF key \in DOMAIN card THEN card[key] ELSE default

\* collectRecipeData(): one recipe per collected card; element is the
\* clone of the card it was taken from.
collectRecipeData(cards) ==
  LET collected == Collected(cards) IN
  [k \in DOMAIN collected |->
     LET card == cards[collected[k]] IN
     [element     |-> collected[k],
      category    |-> DataOr(card, "category", ""),
      ingredients |-> ParseTags(DataOr(card, "ingredients", <<>>)),
      dietary     |-> ParseTags(DataOr(card, "dietary", <<>>))]]

\* mutant: the label counts zero filters too
updateActiveFiltersCountZero(m, af) ==
  LET totalActive == Cardinality(af.category) + Cardinality(af.dietary) IN
  IF m.threw \/ ~Has("active-filters-count") THEN m
  ELSE [m EXCEPT !.dom.activeCount = ToString(totalActive) \o " filter(s) active"]

\* updateActiveFiltersCount()
updateActiveFiltersCount(m, af) ==
  LET totalActive == Cardinality(af.category) + Cardinality(af.dietary) IN
  IF m.threw \/ ~Has("active-filters-count") THEN m
  ELSE IF totalActive = 0 THEN [m EXCEPT !.dom.activeCount = ""]
  ELSE [m EXCEPT !.dom.activeCount = ToString(totalActive) \o " filter(s) active"]

\* mutant: the original sections stay hidden
hideFilteredResultsOnly(m) ==
  IF m.threw THEN m
  ELSE IF ~Has("filtered-results-section") THEN Throw(m)
  ELSE [m EXCEPT !.dom.sectionDisplay = "none"]

\* hideFilteredResults()
hideFilteredResults(m) ==
  IF m.threw THEN m
  ELSE IF ~Has("filtered-results-section") THEN Throw(m)
  ELSE [m EXCEPT !.dom.sectionDisplay = "none",
                 !.dom.originalDisplay = [s \in DOMAIN @ |-> "block"]]

\* displayFilteredResults(filteredRecipes); the grid holds the stored
\* elements themselves (appendChild(recipe.element)), named by their index
\* in allRecipes.
HideOriginals(m) ==
  IF m.threw THEN m
  ELSE [m EXCEPT !.dom.originalDisplay = [s \in DOMAIN @ |-> "none"]]

\* mutant: the grid is filled with copies of the stored elements (nodes
\* that are none of the stored ones)
FillGridCopies(m, filteredRecipes) ==
  IF m.threw THEN m
  ELSE IF ~Has("filtered-results-grid") THEN Throw(m)
  ELSE [m EXCEPT !.dom.grid =
          [k \in DOMAIN filteredRecipes |-> filteredRecipes[k] + Len(allRecipes)]]

\* mutant: the grid is not cleared before it is filled
FillGridAppend(m, filteredRecipes) ==
  IF m.threw THEN m
  ELSE IF ~Has("filtered-results-grid") THEN Throw(m)
  ELSE [m EXCEPT !.dom.grid = @ \o filteredRecipes]

FillGrid(m, filteredRecipes) ==
  IF m.threw THEN m
  ELSE IF ~Has("filtered-results-grid") THEN Throw(m)
  ELSE [m EXCEPT !.dom.grid = filteredRecipes]

SetResultCount(m, n) ==
  IF m.threw THEN m
  ELSE IF ~Has("result-count") THEN Throw(m)
  ELSE [m EXCEPT !.dom.resultCount = ToString(n)]

ShowResults(m) ==
  IF m.threw THEN m
  ELSE IF ~Has("filtered-results-section") THEN Throw(m)
  ELSE [m EXCEPT !.dom.sectionDisplay = "block", !.dom.scroll = "filtered-results-section"]

displayFilteredResults(m, filteredRecipes) ==
  ShowResults(SetResultCount(FillGrid(HideOriginals(m), filteredRecipes),
                             Len(filteredRecipes)))

\* the predicate of allRecipes.filter(...) in applyFilters()
categoryMatch(recipe, af) ==
  af.category = {} \/ recipe.category \in af.category

\* mutant: OR over the selected dietary tags
dietaryMatchAny(recipe, af) ==
  af.dietary = {} \/ \E dietary \in af.dietary : dietary \in Range(recipe.dietary)

dietaryMatch(recipe, af) ==
  af.dietary = {} \/ \A dietary \in af.dietary : dietary \in Range(recipe.dietary)

\* mutant: a dietary tag is also looked up among the ingredients
MatchesIngredients(recipe, af) ==
  /\ categoryMatch(recipe, af)
  /\ \A dietary \in af.dietary :
       dietary \in Range(recipe.dietary) \cup Range(recipe.ingredients)

Matches(recipe, af) == categoryMatch(recipe, af) /\ dietaryMatch(recipe, af)

\* mutant: the matching recipes, last captured first
FilteredRecipesReversed(recipes, af) ==
  LET kept == SelectSeq([i \in DOMAIN recipes |-> i], LAMBDA i : Matches(recipes[i], af))
  IN [k \in DOMAIN kept |-> kept[Len(kept) + 1 - k]]

FilteredRecipes(recipes, af) ==
  SelectSeq([i \in DOMAIN recipes |-> i], LAMBDA i : Matches(recipes[i], af))

\* applyFilters()
applyFilters(m, af, recipes) ==
  LET hasActiveFilters == af.category # {} \/ af.dietary # {} IN
  IF ~hasActiveFilters THEN hideFilteredResults(m)
  ELSE displayFilteredResults(m, FilteredRecipes(recipes, af))

\* mutant: unchecking a box clears its whole set
SetFilterClear(af, c, checked) ==
  [af EXCEPT ![c.name] = IF checked THEN @ \cup {c.value} ELSE {}]

\* mutant: unchecking a box leaves its value in the set
SetFilterAddOnly(af, c, checked) ==
  [af EXCEPT ![c.name] = IF checked THEN @ \cup {c.value} ELSE @]

\* activeFilters[filterType].add(value) / .delete(value)
SetFilter(af, c, checked) ==
  [af EXCEPT ![c.name] = IF checked THEN @ \cup {c.value} ELSE @ \ {c.value}]

\* handleFilterChange(event), for a change event whose target is input:
\* the new filters and the page the handler leaves
InputOf(c, checked) ==
  [type |-> "checkbox", name |-> c.name, value |-> c.value, checked |-> checked]

\* mutant: every input of the form counts as a checkbox
IsCheckboxAny(input) == TRUE

\* if (input.type !== 'checkbox') return;
IsCheckbox(input) == input.type = "checkbox"

\* activeFilters[filterType] is undefined for any other name, and the call
\* of add or delete on it throws
FilterChange(input, af, m) ==
  IF ~IsCheckbox(input) THEN [af |-> af, m |-> m]
  ELSE IF input.name \notin DOMAIN af THEN [af |-> af, m |-> Throw(m)]
  ELSE LET changed == SetFilter(af, input, input.checked)
       IN [af |-> changed,
           m  |-> updateActiveFiltersCount(applyFilters(m, changed, allRecipes), changed)]

\* handleFilterChange(event): the user has clicked checkbox c of the form.
\* The browser flips the box, then the form's change listener runs.
handleFilterChange(c) ==
  /\ ready
  /\ Has("recipe-filter-form")
  /\ LET checked == ~dom.checked[c]
         m0      == [dom |-> [dom EXCEPT !.checked[c] = checked], threw |-> FALSE]
         r       == FilterChange(InputOf(c, checked), activeFilters, m0)
     IN /\ activeFilters' = r.af
        /\ dom' = r.m.dom
        /\ threw' = r.m.threw
        /\ hist' = HistOfChange(c, checked)
  /\ UNCHANGED <<pageCards, pageSections, anchors, ready, allRecipes>>
  /\ UNCHANGED includeVars

\* inputs of the form that are no filter boxes: a text field, a radio
\* button, a checkbox with another name
OtherInputs ==
  {[type |-> "text", name |-> "category", value |-> "rice", checked |-> FALSE],
   [type |-> "radio", name |-> "dietary", value |-> "vegan", checked |-> TRUE],
   [type |-> "checkbox", name |-> "ingredients", value |-> "vegan", checked |-> TRUE]}

\* handleFilterChange(event): the user has changed another input of the form
handleOtherChange(input) ==
  /\ ready
  /\ Has("recipe-filter-form")
  /\ LET r == FilterChange(input, activeFilters, [dom |-> dom, threw |-> FALSE])
     IN /\ activeFilters' = r.af
        /\ dom' = r.m.dom
        /\ threw' = r.m.threw
        /\ hist' = Before("other", NoBox)
  /\ UNCHANGED <<pageCards, pageSections, anchors, ready, allRecipes>>
  /\ UNCHANGED includeVars

\* mutant: the boxes stay as they are
UncheckNone(m) ==
  IF m.threw THEN m
  ELSE IF ~Has("recipe-filter-form") THEN Throw(m)
  ELSE m

\* resetFilters(): the user has clicked the reset button.
UncheckAll(m) ==
  IF m.threw THEN m
  ELSE IF ~Has("recipe-filter-form") THEN Throw(m)
  ELSE [m EXCEPT !.dom.checked = [c \in Checkboxes |-> FALSE]]

ScrollToFilterHeading(m) ==
  IF m.threw \/ ~Has("filter-heading") THEN m
  ELSE [m EXCEPT !.dom.scroll = "filter-heading"]

NoFilters == [category |-> {}, dietary |-> {}]

resetFilters ==
  /\ ready
  /\ Has("reset-filters")
  /\ LET m0 == [dom |-> dom, threw |-> FALSE]
         m  == ScrollToFilterHeading(
                 updateActiveFiltersCount(hideFilteredResults(UncheckAll(m0)), NoFilters))
     IN /\ activeFilters' = NoFilters
        /\ dom' = m.dom
        /\ threw' = m.threw
        /\ hist' = Before("reset", NoBox)
  /\ UNCHANGED <<pageCards, pageSections, anchors, ready, allRecipes>>
  /\ UNCHANGED includeVars

\* mutant: the recipes are collected again whenever the event recurs
setupAgain ==
  /\ ready' = TRUE
  /\ allRecipes' = collectRecipeData(DocumentCards)
  /\ LET m == updateActiveFiltersCount([dom |-> dom, threw |-> FALSE], activeFilters)
     IN dom' = m.dom /\ threw' = m.threw
  /\ hist' = Before("setup", NoBox)
  /\ UNCHANGED <<pageCards, pageSections, anchors, activeFilters>>
  /\ UNCHANGED includeVars

\* setup(): look the anchors up, collect the recipes, register the
\* listeners (handleFilterChange and resetFilters are enabled from now on),
\* show the count of active filters.
setup ==
  /\ ~ready
  /\ ready' = TRUE
  /\ allRecipes' = collectRecipeData(DocumentCards)
  /\ LET m == updateActiveFiltersCount([dom |-> dom, threw |-> FALSE], activeFilters)
     IN dom' = m.dom /\ threw' = m.threw
  /\ hist' = Before("setup", NoBox)
  /\ UNCHANGED <<pageCards, pageSections, anchors, activeFilters>>
  /\ UNCHANGED includeVars

\* the module-level state of recipe-filter.js, on a page with the given
\* cards, sections and anchors
FilterInit(cards, sections, ids) ==
  /\ pageCards = cards
  /\ pageSections = sections
  /\ anchors = ids
  /\ ready = FALSE
  /\ allRecipes = <<>>
  /\ activeFilters = NoFilters
  /\ dom = InitialMarkup(sections)
  /\ threw = FALSE
  /\ hist = [op |-> "load", box |-> NoBox, af |-> NoFilters, view |-> View(InitialMarkup(sections))]

\* the pages the filter is used on: the home page (featured recipes) and
\* the recipe hub (one section per category)
SectionLayouts == {{"featured-recipes-section"},
                   OriginalSectionIds \ {"featured-recipes-section"}}

(***************************************************************************)
(* includes.js.  A path is a sequence of segments; the base path of a page *)
(* (data-root-path) is one ".." per directory level below the site root,   *)
(* and "." is the empty sequence.                                          *)
(***************************************************************************)
RootPaths == StrsUpTo({".."}, MaxDepth)

\* an element with a root-relative reference, as the partials write it:
\* <a href="index.html" data-root-href="index.html">
RootRef(attr, ref) == [attr |-> attr, ref |-> ref, value |-> ref]

HomeLink == RootRef("href", <<"index.html">>)
LogoImage == RootRef("src", <<"assets", "img", "logo", "joko-logo.svg">>)

\* the markup of the partials
Header ==
  [kind |-> "fragment", name |-> "partials/header.html",
   elements |-> <<HomeLink, LogoImage>>, cards |-> <<>>, includes |-> <<>>]
\* a fragment whose markup has a [data-include] element of its own
Footer ==
  [kind |-> "fragment", name |-> "partials/footer.html", elements |-> <<>>, cards |-> <<>>,
   includes |-> <<"partials/links.html">>]

\* a fragment that carries a recipe card
RecipeList ==
  [kind |-> "fragment", name |-> "partials/recipes.html", elements |-> <<>>,
   cards |-> <<[category |-> "rice", dietary |-> <<"vegan">>, ingredients |-> <<"tofu">>]>>,
   includes |-> <<>>]

Fragments == {Header, Footer, RecipeList}

\* innerHTML of a placeholder before its include is resolved
OwnMarkup ==
  [kind |-> "markup", name |-> "", elements |-> <<>>, cards |-> <<>>, includes |-> <<>>]

\* '<!-- include ... -->', the content after a failed fetch
Marker ==
  [kind |-> "marker", name |-> "<!-- include -->", elements |-> <<>>, cards |-> <<>>,
   includes |-> <<>>]

\* what the network answers to the fetch of a placeholder: a response with
\* a success status and a body, one whose body cannot be read, a response
\* with another status, a network error, or nothing at all
FailureKinds == {"body-error", "not-ok", "network-error"}
Responses == {[kind |-> "ok", body |-> f] : f \in Fragments}
             \cup {[kind |-> k, body |-> OwnMarkup] : k \in FailureKinds \cup {"stalled"}}

\* a placeholder: its data-include path, the placeholder it is nested in
\* (0: none) and the answer to its fetch
PlaceholdersOf(n) ==
  {ph \in [1..n -> [path : {"", "partial.html"}, parent : 0..n, response : Responses]] :
     \A i \in 1..n : /\ ph[i].parent < i
                     /\ ph[i].path = "" => ph[i].response.kind = "stalled"}

RECURSIVE Ancestors(_)
Ancestors(i) ==
  IF placeholders[i].parent = 0 THEN {}
  ELSE {placeholders[i].parent} \cup Ancestors(placeholders[i].parent)

Descendants(p) == {q \in DOMAIN placeholders : p \in Ancestors(q)}

\* mutant: one variable shared by all callbacks, left at the last placeholder
targetShared(p) == Len(placeholders)

\* the element the callbacks of placeholder p write to: the forEach
\* callback's own parameter
target(p) == p

\* target.innerHTML = html: the new content replaces the old children, and
\* the placeholders among them leave the document
SetInnerHTML(p, html) ==
  /\ content' = [content EXCEPT ![target(p)] = html]
  /\ attached' = [q \in DOMAIN attached |->
                    IF q \in Descendants(target(p)) THEN FALSE ELSE attached[q]]

\* mutant: a failure puts the marker into every placeholder
catchAll(p) ==
  /\ console' = console \cup {p}
  /\ content' = [q \in DOMAIN content |-> Marker]
  /\ attached' = [q \in DOMAIN attached |->
                    IF q \in Descendants(p) THEN FALSE ELSE attached[q]]

\* .catch(error => ...)
catch(p) ==
  /\ console' = console \cup {p}
  /\ SetInnerHTML(p, Marker)

\* A [data-include] element: placeholder p of the page as loaded (nested
\* 0), or the k-th such element of the fragment spliced into placeholder p.
Element(p, k) == [at |-> p, nested |-> k]

\* includeTargets.forEach: one fetch(includePath) per element of the list
\* whose path is not empty, in document order
Requested ==
  LET targets == SelectSeq([p \in DOMAIN placeholders |-> p],
                           LAMBDA p : placeholders[p].path # "")
  IN [i \in DOMAIN targets |->
        [element |-> Element(targets[i], 0), path |-> placeholders[targets[i]].path]]

\* mutant: a placeholder with a path shows the marker while its fetch runs
IncludesLoadedMarked ==
  /\ ~included
  /\ included' = TRUE
  /\ fetchState' = [p \in DOMAIN placeholders |->
                      IF placeholders[p].path = "" THEN "none" ELSE "pending"]
  /\ content' = [p \in DOMAIN placeholders |->
                   IF placeholders[p].path = "" THEN content[p] ELSE Marker]
  /\ requests' = Requested
  /\ UNCHANGED <<rootPath, pageElements, placeholders, attached, console>>
  /\ UNCHANGED filterVars

\* the DOMContentLoaded handler: one fetch per placeholder with a path
IncludesLoaded ==
  /\ ~included
  /\ included' = TRUE
  /\ fetchState' = [p \in DOMAIN placeholders |->
                      IF placeholders[p].path = "" THEN "none" ELSE "pending"]
  /\ requests' = Requested
  /\ UNCHANGED <<rootPath, pageElements, placeholders, content, attached, console>>
  /\ UNCHANGED filterVars

\* fetch(includePath) settles: .then(response => ...) or, rejected, .catch
fetchSettles(p) ==
  /\ fetchState[p] = "pending"
  /\ placeholders[p].response.kind # "stalled"
  /\ IF placeholders[p].response.kind \in {"ok", "body-error"}
     THEN /\ fetchState' = [fetchState EXCEPT ![p] = "reading"]
          /\ UNCHANGED <<content, attached, console>>
     ELSE /\ fetchState' = [fetchState EXCEPT ![p] = "done"]
          /\ catch(p)
  /\ UNCHANGED <<rootPath, pageElements, placeholders, included, requests>>
  /\ UNCHANGED filterVars

\* mutant: the [data-include] elements of the spliced markup are fetched too
textSettlesNested(p) ==
  /\ fetchState[p] = "reading"
  /\ fetchState' = [fetchState EXCEPT ![p] = "done"]
  /\ IF placeholders[p].response.kind = "ok"
     THEN /\ SetInnerHTML(p, placeholders[p].response.body)
          /\ requests' = requests \o
               [k \in DOMAIN placeholders[p].response.body.includes |->
                  [element |-> Element(p, k),
                   path    |-> placeholders[p].response.body.includes[k]]]
          /\ UNCHANGED console
     ELSE catch(p) /\ UNCHANGED requests
  /\ UNCHANGED <<rootPath, pageElements, placeholders, included>>
  /\ UNCHANGED filterVars

textSettlesOverGrid(p) ==
  /\ fetchState[p] = "reading"
  /\ fetchState' = [fetchState EXCEPT ![p] = "done"]
  /\ IF placeholders[p].response.kind = "ok"
     THEN /\ SetInnerHTML(p, placeholders[p].response.body)
          /\ UNCHANGED console
     ELSE catch(p)
  /\ dom' = [dom EXCEPT !.grid = <<>>]
  /\ UNCHANGED <<rootPath, pageElements, placeholders, included, requests>>
  /\ UNCHANGED <<pageCards, pageSections, anchors, ready, allRecipes, activeFilters, threw, hist>>

\* response.text() settles: .then(html => ...) or, rejected, .catch
textSettles(p) ==
  /\ fetchState[p] = "reading"
  /\ fetchState' = [fetchState EXCEPT ![p] = "done"]
  /\ IF placeholders[p].response.kind = "ok"
     THEN /\ SetInnerHTML(p, placeholders[p].response.body)
          /\ UNCHANGED console
     ELSE catch(p)
  /\ UNCHANGED <<rootPath, pageElements, placeholders, included, requests>>
  /\ UNCHANGED filterVars

\* the page as loaded, before includes.js has run
IncludeInit(root, elems, phs) ==
  /\ rootPath = root
  /\ pageElements = elems
  /\ placeholders = phs
  /\ included = FALSE
  /\ fetchState = [p \in DOMAIN phs |-> "none"]
  /\ content = [p \in DOMAIN phs |-> OwnMarkup]
  /\ attached = [p \in DOMAIN phs |-> TRUE]
  /\ console = {}
  /\ requests = <<>>

(***************************************************************************)
(* Spec: the filter engine on a page that keeps the markup contract (every *)
(* anchor, well-formed cards) and has no placeholder.                      *)
(***************************************************************************)
Init ==
  /\ \E cards \in SeqsUpTo(ContractCards, MaxCards), sections \in SectionLayouts :
       FilterInit(cards, sections, AnchorIds)
  /\ IncludeInit(<<>>, <<>>, <<>>)

Next ==
  \/ setup
  \/ \E c \in Checkboxes : handleFilterChange(c)
  \/ \E input \in OtherInputs : handleOtherChange(input)
  \/ resetFilters

Spec == Init /\ [][Next]_vars

(***************************************************************************)
(* SpecIncludes: the include loader on pages of every nesting depth, with  *)
(* up to MaxPlaceholders placeholders answered in every way.               *)
(***************************************************************************)
InitIncludes ==
  /\ FilterInit(<<>>, {}, {})
  /\ \E root \in RootPaths, elems \in {<<>>, <<HomeLink>>}, n \in 0..MaxPlaceholders :
       \E phs \in PlaceholdersOf(n) : IncludeInit(root, elems, phs)

NextIncludes ==
  \/ IncludesLoaded
  \/ \E p \in DOMAIN placeholders : fetchSettles(p)
  \/ \E p \in DOMAIN placeholders : textSettles(p)

SpecIncludes == InitIncludes /\ [][NextIncludes]_vars

\* SpecIncludesLive: the browser runs the DOMContentLoaded handler once the
\* document is parsed, and runs a promise callback once its promise has
\* settled; a fetch that gets no answer never settles.
SpecIncludesLive ==
  /\ SpecIncludes
  /\ WF_vars(IncludesLoaded)
  /\ \A p \in 1..MaxPlaceholders :
       /\ WF_vars(p \in DOMAIN placeholders /\ fetchSettles(p))
       /\ WF_vars(p \in DOMAIN placeholders /\ textSettles(p))

(***************************************************************************)
(* SpecAnchors: the filter engine on pages that lack any of the anchors    *)
(* and original sections.                                                  *)
(***************************************************************************)
MainDishCard ==
  [category |-> "main-dish", dietary |-> <<"vegan", Comma, "halal">>, ingredients |-> <<"vegan">>]

InitAnchors ==
  /\ \E cards \in {<<>>, <<MainDishCard>>}, sections \in SectionLayouts \cup {{}},
        ids \in SUBSET AnchorIds :
       FilterInit(cards, sections, ids)
  /\ IncludeInit(<<>>, <<>>, <<>>)

SpecAnchors == InitAnchors /\ [][Next]_vars

(***************************************************************************)
(* SpecMarkup: the filter engine on a page that has every anchor and one   *)
(* card whose attributes are absent, empty, unknown or malformed.          *)
(***************************************************************************)
InitMarkup ==
  /\ \E card \in MarkupCards :
       FilterInit(<<card>>, {"featured-recipes-section"}, AnchorIds)
  /\ IncludeInit(<<>>, <<>>, <<>>)

SpecMarkup == InitMarkup /\ [][Next]_vars

(***************************************************************************)
(* SpecPage: both scripts on one page: a page with every anchor, at most   *)
(* one card and one placeholder, whose fragment may carry a card.  The     *)
(* scripts share the document and nothing else; setup() runs when          *)
(* recipe-filter.js is evaluated or at DOMContentLoaded, which may be      *)
(* before or after a fragment has been spliced.  Another script or the     *)
(* user may change a live card at any time.                                *)
(***************************************************************************)
EditedCard ==
  [category |-> "rice", dietary |-> <<"halal">>, ingredients |-> <<"vegan">>]

\* the attributes of the live card i are changed
editCard(i) ==
  /\ pageCards[i] # EditedCard
  /\ pageCards' = [pageCards EXCEPT ![i] = EditedCard]
  /\ UNCHANGED <<pageSections, anchors, ready, allRecipes, activeFilters, dom, threw, hist>>
  /\ UNCHANGED includeVars

InitPage ==
  /\ \E cards \in {<<>>, <<MainDishCard>>} :
       FilterInit(cards, {"featured-recipes-section"}, AnchorIds)
  /\ \E phs \in PlaceholdersOf(1) : IncludeInit(<<>>, <<>>, phs)

NextPage ==
  \/ Next
  \/ NextIncludes
  \/ \E i \in DOMAIN pageCards : editCard(i)

SpecPage == InitPage /\ [][NextPage]_vars

(***************************************************************************)
(* The filter predicate and the views.                                     *)
(***************************************************************************)
RecipeIds == DOMAIN allRecipes

\* the recipes whose cards the user sees in the filtered-results view
Displayed == Range(View(dom).cards)

AnyFilter == activeFilters # NoFilters

IdleView ==
  /\ ~Shown(dom.sectionDisplay)
  /\ \A s \in pageSections : Shown(dom.originalDisplay[s])

FilteredView ==
  /\ Shown(dom.sectionDisplay)
  /\ \A s \in pageSections : ~Shown(dom.originalDisplay[s])

\* C1: whenever a filter is active (which is after a toggle), the recipes
\* displayed are exactly the captured recipes R with (activeCategory empty
\* or R.category in activeCategory) and (activeDietary empty or
\* activeDietary a subset of R.dietary).
C1_DisplayedIsIncluded ==
  AnyFilter =>
    Displayed =
      {i \in RecipeIds :
         /\ activeFilters.category = {} \/ allRecipes[i].category \in activeFilters.category
         /\ activeFilters.dietary = {} \/ activeFilters.dietary \subseteq Range(allRecipes[i].dietary)}

\* two categories and two dietary tags selected; a recipe is shown, another is not
C1_Witness ==
  /\ hist.op = "on"
  /\ Cardinality(activeFilters.category) = 2
  /\ Cardinality(activeFilters.dietary) = 2
  /\ Displayed # {}
  /\ Displayed # RecipeIds

\* C2: at every moment (before and after setup, after every toggle and
\* reset) the view is the one the filter state determines: no filter, the
\* filtered-results view hidden and every original section shown; a filter,
\* the filtered-results view shown and every original section hidden.
C2_ViewFollowsFilters ==
  IF AnyFilter THEN FilteredView ELSE IdleView

\* the last filter has just been switched off: back from Filtered to Idle
C2_Witness ==
  /\ hist.op = "off"
  /\ hist.view.filtered
  /\ ~AnyFilter
  /\ IdleView
  /\ pageSections # {}

\* C3: after a box is switched on and then off with nothing in between,
\* both filter sets and the displayed results (which view, which cards,
\* which count, which original sections) are as before the pair.
C3_OnOffRoundTrip ==
  hist.op = "on-off" => activeFilters = hist.af /\ View(dom) = hist.view

\* a round trip that started and ended in a filtered view with a card in it
C3_Witness ==
  /\ hist.op = "on-off"
  /\ hist.view.filtered
  /\ hist.view.cards # <<>>
  /\ Len(hist.view.cards) < Len(allRecipes)

\* C4: after a reset both filter sets are empty, every checkbox is
\* unchecked, the filtered-results view is hidden, every original section
\* is shown and the active-filters label is empty.
C4_ResetYieldsIdle ==
  hist.op = "reset" =>
    /\ activeFilters = NoFilters
    /\ \A c \in Checkboxes : ~dom.checked[c]
    /\ IdleView
    /\ dom.activeCount = ""

\* a reset from the filtered view with every box checked
C4_Witness ==
  /\ hist.op = "reset"
  /\ hist.view.filtered
  /\ Cardinality(hist.af.category) + Cardinality(hist.af.dietary) = Cardinality(Checkboxes)
  /\ pageSections # {}

\* C5 (as claimed): on a page that lacks anchors every toggle and reset
\* runs to completion, and every side effect whose anchor is there is
\* carried out: the label, the view switch, the result count and the grid.
C5_MissingAnchorsTolerated ==
  hist.op \in {"on", "off", "on-off", "reset"} =>
    /\ ~threw
    /\ Has("active-filters-count") =>
         dom.activeCount =
           IF AnyFilter
           THEN ToString(Cardinality(activeFilters.category) + Cardinality(activeFilters.dietary))
                  \o " filter(s) active"
           ELSE ""
    /\ Has("filtered-results-section") => Shown(dom.sectionDisplay) = AnyFilter
    /\ \A s \in pageSections : Shown(dom.originalDisplay[s]) = ~AnyFilter
    /\ AnyFilter /\ Has("result-count") =>
         dom.resultCount = ToString(Len(FilteredRecipes(allRecipes, activeFilters)))
    /\ AnyFilter /\ Has("filtered-results-grid") =>
         dom.grid = FilteredRecipes(allRecipes, activeFilters)

(***************************************************************************)
(* The include loader.                                                     *)
(***************************************************************************)
Resolve(root, ref) == root \o ref

\* the elements with a root-relative reference that are in the document
ElementsInPage ==
  Range(pageElements)
  \cup UNION {Range(content[p].elements) : p \in {q \in DOMAIN placeholders : attached[q]}}

Spliced(p) == content[p].kind = "fragment"

\* C6 (as claimed): once a fragment has been spliced, every element of the
\* page with a root-relative reference has its href / src equal to the
\* page's base path prefixed to that reference.
C6_RootReferencesResolved ==
  (\E p \in DOMAIN placeholders : Spliced(p)) =>
    \A e \in ElementsInPage : e.value = Resolve(rootPath, e.ref)

\* what the fetch of placeholder p ends with
Outcome(p) ==
  IF placeholders[p].response.kind = "ok" THEN placeholders[p].response.body ELSE Marker

Failed(p) == placeholders[p].response.kind \in FailureKinds

\* C7: a placeholder whose fetch has failed holds the marker and its error
\* is logged; every placeholder whose fetch has ended holds the outcome of
\* its own fetch, every other one its own markup, and no error is logged
\* for a placeholder whose fetch has not failed.
C7_FailureIsLocal ==
  \A p \in DOMAIN placeholders :
    /\ content[p] = IF fetchState[p] = "done" THEN Outcome(p) ELSE OwnMarkup
    /\ p \in console <=> fetchState[p] = "done" /\ Failed(p)

\* a failed placeholder beside one that was resolved after the failure, and
\* beside one still waiting
C7_Witness ==
  \E p, q \in DOMAIN placeholders :
    /\ p < q
    /\ fetchState[q] = "done" /\ Failed(q) /\ content[q] = Marker /\ q \in console
    /\ fetchState[p] = "done" /\ Spliced(p) /\ p \notin console

\* every fetch that gets an answer has ended
Quiescent ==
  /\ included
  /\ \A p \in DOMAIN placeholders :
       fetchState[p] \in {"pending", "reading"} => placeholders[p].response.kind = "stalled"

\* the final page, from the page as loaded and the answers alone
FinalContent(p) ==
  IF placeholders[p].path = "" \/ placeholders[p].response.kind = "stalled"
  THEN OwnMarkup ELSE Outcome(p)

FinalAttached(p) ==
  \A a \in Ancestors(p) :
    placeholders[a].path = "" \/ placeholders[a].response.kind = "stalled"

\* C8: whatever the order of the completions, once they are over every
\* placeholder has the same content and the same place (in the document or
\* replaced with its parent's old children).
C8_OrderDoesNotMatter ==
  Quiescent =>
    \A p \in DOMAIN placeholders :
      content[p] = FinalContent(p) /\ attached[p] = FinalAttached(p)

\* two placeholders, the second nested in the first, both resolved
C8_Witness ==
  /\ Quiescent
  /\ Len(placeholders) >= 2
  /\ \E p, q \in DOMAIN placeholders :
       /\ p \in Ancestors(q)
       /\ fetchState[p] = "done" /\ fetchState[q] = "done"
       /\ content[p] # content[q]

(***************************************************************************)
(* The parsing of the cards' attributes.                                   *)
(***************************************************************************)
CardOf(i) == pageCards[allRecipes[i].element]

DietaryAttr(i) == DataOr(CardOf(i), "dietary", <<>>)

\* the comma-separated tokens of an attribute that are not blank
Tokens(attr) == {tok \in Range(split(attr)) : trim(tok) # <<>>}

\* C9 (as claimed): the dietary tags of a recipe are the trimmed non-blank
\* tokens of its card's attribute, and the recipe is displayed under a
\* dietary filter for any of them.
C9_TagsAreTrimmed ==
  \A i \in RecipeIds :
    /\ Range(allRecipes[i].dietary) = {Join(trim(tok)) : tok \in Tokens(DietaryAttr(i))}
    /\ \A tok \in Tokens(DietaryAttr(i)) :
         activeFilters = [category |-> {}, dietary |-> {Join(trim(tok))}] => i \in Displayed

\* C9 (amended): the dietary tags of a recipe are the non-blank tokens of
\* its card's attribute as they stand between the commas, untrimmed; under
\* a dietary filter alone the recipe is displayed exactly when every
\* selected tag is literally one of them.
C9_TagsAreKeptVerbatim ==
  \A i \in RecipeIds :
    /\ Range(allRecipes[i].dietary) = {Join(tok) : tok \in Tokens(DietaryAttr(i))}
    /\ activeFilters.category = {} /\ activeFilters.dietary # {} =>
         (i \in Displayed <=>
            activeFilters.dietary \subseteq {Join(tok) : tok \in Tokens(DietaryAttr(i))})

\* the card "vegan, halal" under the filter halal: indexed with " halal",
\* not displayed
C9_Witness ==
  /\ Len(allRecipes) = 1
  /\ DietaryAttr(1) = <<"vegan", Comma, Space, "halal">>
  /\ allRecipes[1].dietary = <<"vegan", " halal">>
  /\ activeFilters = [category |-> {}, dietary |-> {"halal"}]
  /\ FilteredView
  /\ Displayed = {}

\* C10 (as claimed): every card is indexed, also one without a category
\* attribute.
C10_EveryCardIndexed ==
  ready => Len(allRecipes) = Len(pageCards)

\* C10 (amended): the cards indexed are those that carry a category
\* attribute, in document order; an absent or empty attribute of an
\* indexed card gives the empty category or the empty dietary list, no
\* handler throws, and a recipe without category (dietary tags) is not
\* displayed while a category (dietary) filter is active.
C10_IndexedWithEmptyTags ==
  ready =>
    /\ hist.op \in {"setup", "on", "off", "on-off", "reset"} => ~threw
    /\ [k \in RecipeIds |-> allRecipes[k].element]
         = SelectSeq([i \in DOMAIN pageCards |-> i], LAMBDA i : "category" \in DOMAIN pageCards[i])
    /\ \A i \in RecipeIds :
         /\ allRecipes[i].category = CardOf(i).category
         /\ Tokens(DietaryAttr(i)) = {} => allRecipes[i].dietary = <<>>
         /\ allRecipes[i].category = "" /\ activeFilters.category # {} => i \notin Displayed
         /\ allRecipes[i].dietary = <<>> /\ activeFilters.dietary # {} => i \notin Displayed

\* a card with an empty category and no dietary attribute, indexed, and
\* left out of the filtered view
C10_Witness ==
  /\ Len(allRecipes) = 1
  /\ CardOf(1).category = ""
  /\ "dietary" \notin DOMAIN CardOf(1)
  /\ allRecipes[1].dietary = <<>>
  /\ AnyFilter
  /\ FilteredView
  /\ Displayed = {}

(***************************************************************************)
(* Recomputation, the label and the grid.                                  *)
(***************************************************************************)
\* one more run of applyFilters() on page d, the filters left as they are
Recomputed(d) == applyFilters([dom |-> d, threw |-> FALSE], activeFilters, allRecipes)

\* C11: recomputation is idempotent: a second run of applyFilters() with
\* the filters unchanged leaves the page as the first run left it (the same
\* cards in the same order, the same result count, the same view, the same
\* scroll target); in particular the page a toggle has produced is left
\* as it is by a further run.
C11_RecomputeIsIdempotent ==
  ready =>
    LET once  == Recomputed(dom)
        twice == Recomputed(once.dom)
    IN /\ ~once.threw
       /\ twice = once
       /\ hist.op \in {"on", "off"} => once.dom = dom

\* a toggle has filled the grid with two cards
C11_Witness ==
  /\ hist.op = "on"
  /\ FilteredView
  /\ Len(dom.grid) = 2

TotalActive == Cardinality(activeFilters.category) + Cardinality(activeFilters.dietary)

\* C12: after setup and after every toggle or reset that ran to its end,
\* the label of active filters is the empty text when no filter is active
\* and names the number |activeCategory| + |activeDietary| otherwise.
C12_LabelFollowsFilters ==
  ready /\ hist.op # "other" /\ ~threw /\ Has("active-filters-count") =>
    /\ TotalActive = 0 => dom.activeCount = ""
    /\ TotalActive > 0 => dom.activeCount = ToString(TotalActive) \o " filter(s) active"
    /\ dom.activeCount # "0 filter(s) active"

\* one of two active filters has been switched off
C12_Witness ==
  /\ hist.op = "off"
  /\ ~threw
  /\ TotalActive = 1
  /\ dom.activeCount = "1 filter(s) active"

\* C13: whenever the filtered view is shown, the cards of the grid are
\* captured recipes in capture order without repetition, and the visible
\* result count is the number of cards in the grid.
C13_GridInCaptureOrder ==
  Shown(dom.sectionDisplay) =>
    /\ \A k \in DOMAIN dom.grid : dom.grid[k] \in RecipeIds
    /\ \A j, k \in DOMAIN dom.grid : j < k => dom.grid[j] < dom.grid[k]
    /\ dom.resultCount = ToString(Len(dom.grid))

\* both captured recipes are shown
C13_Witness ==
  /\ Shown(dom.sectionDisplay)
  /\ Len(allRecipes) = 2
  /\ dom.grid = <<1, 2>>
  /\ dom.resultCount = "2"

\* the values of the checked boxes of the form that carry the given name
CheckedValues(name) == {c.value : c \in {b \in Checkboxes : b.name = name /\ dom.checked[b]}}

\* C19: the boxes of the form start unchecked and have pairwise distinct
\* (name, value) with name category or dietary; after any sequence of
\* toggles and resets activeCategory (activeDietary) is the set of values
\* of the category (dietary) boxes that are checked.
C19_FiltersMirrorCheckboxes ==
  /\ activeFilters.category = CheckedValues("category")
  /\ activeFilters.dietary = CheckedValues("dietary")

\* a box has been switched off while three others had been switched on
C19_Witness ==
  /\ hist.op = "off"
  /\ Cardinality(CheckedValues("category")) = 1
  /\ Cardinality(CheckedValues("dietary")) = 2

(***************************************************************************)
(* Change events of other inputs.                                          *)
(***************************************************************************)
\* C20: a change event whose target is not a checkbox, or is a checkbox
\* whose name is neither category nor dietary, changes nothing: the filter
\* sets, the recipes, the boxes, the grid, the views, the result count and
\* the label are after it what they were before it.
C20_OtherChangeIsIgnored ==
  [][(\E input \in OtherInputs : handleOtherChange(input))
       => UNCHANGED <<activeFilters, allRecipes, dom>>]_vars

\* the change of a checkbox with another name has been handled in the
\* filtered view: the handler has thrown on the missing set
C20_Witness ==
  /\ hist.op = "other"
  /\ threw
  /\ AnyFilter
  /\ FilteredView

(***************************************************************************)
(* Ingredients.                                                            *)
(***************************************************************************)
\* data-ingredients lists; an ingredient may be spelled like a dietary tag
IngredientLists == {<<"tofu">>, <<"halal", Comma, "vegan">>}

\* the pages that differ from the page at hand in the ingredients only
IngredientTwins ==
  {[i \in DOMAIN pageCards |-> [pageCards[i] EXCEPT !.ingredients = g[i]]] :
     g \in [DOMAIN pageCards -> IngredientLists]}

GridChildren == Range(dom.grid)

\* C17 (as claimed): no stored element is ever placed into the page; the
\* grid holds copies, and every stored element stays detached.
C17_SnapshotsStayDetached ==
  \A i \in RecipeIds : i \notin GridChildren

\* C17 (amended): the element stored for a recipe is a copy of the live
\* card, and that stored element itself is what a recomputation places into
\* the grid: no further copy is made.  Every child of the grid is a stored
\* element, none occurs twice, and after a toggle that leaves a filter
\* active the stored elements in the document are exactly those of the
\* matching recipes; the others are detached.
C17_SnapshotsAreDisplayed ==
  /\ GridChildren \subseteq RecipeIds
  /\ Cardinality(GridChildren) = Len(dom.grid)
  /\ AnyFilter =>
       GridChildren =
         {i \in RecipeIds :
            /\ activeFilters.category # {} => allRecipes[i].category \in activeFilters.category
            /\ activeFilters.dietary \subseteq Range(allRecipes[i].dietary)}

\* after toggles, one stored element is in the document and another is not
C17_Witness ==
  /\ hist.op = "off"
  /\ AnyFilter
  /\ Len(allRecipes) = 2
  /\ Cardinality(GridChildren) = 1

(***************************************************************************)
(* The two scripts on one page.                                            *)
(***************************************************************************)
\* C14: the recipes are captured exactly once: once setup() has run, no
\* toggle, reset, other change event, splice of a fragment or change of a
\* live card alters allRecipes (their number, order, category and dietary
\* tags), and setup() does not run again; so a card that enters the
\* document later is never indexed.
C14_IndexCapturedOnce ==
  [][ready => ready' /\ allRecipes' = allRecipes]_vars

\* after setup a fragment with a card has been spliced, the live card has
\* been changed and filters have been used: the index has the one recipe
\* captured at setup, as it was then
C14_Witness ==
  /\ ready
  /\ hist.op = "off"
  /\ Len(allRecipes) = 1
  /\ Len(DocumentCards) = 2
  /\ pageCards = <<EditedCard>>
  /\ allRecipes[1].category = "main-dish"

FetchCompletion ==
  \/ IncludesLoaded
  \/ \E p \in DOMAIN placeholders : fetchSettles(p)
  \/ \E p \in DOMAIN placeholders : textSettles(p)

Settles(p) == placeholders[p].path # "" /\ placeholders[p].response.kind # "stalled"

Fetches(e) == Cardinality({i \in DOMAIN requests : requests[i].element = e})

\* the [data-include] elements that have arrived inside spliced fragments
Arrived ==
  UNION {{Element(p, k) : k \in DOMAIN content[p].includes} : p \in DOMAIN placeholders}

\* C21: the include loader makes one pass over the placeholders of the
\* page as loaded: once the pass has run, each of them with a non-empty
\* path has been fetched exactly once, with its own path; a placeholder
\* with an empty path is never fetched and never written; and a
\* [data-include] element that arrives inside a spliced fragment is never
\* fetched, so the fragment stays as it was fetched, its includes
\* unresolved, in every interleaving of the callbacks.
C21_SinglePass ==
  /\ \A p \in DOMAIN placeholders :
       /\ Fetches(Element(p, 0)) = IF included /\ placeholders[p].path # "" THEN 1 ELSE 0
       /\ Fetches(Element(p, 0)) = 0 <=> fetchState[p] = "none"
       /\ placeholders[p].path = "" => content[p] = OwnMarkup
       /\ fetchState[p] = "done" /\ placeholders[p].response.kind = "ok"
            => content[p] = placeholders[p].response.body
  /\ \A i \in DOMAIN requests :
       /\ requests[i].element.nested = 0
       /\ requests[i].element.at \in DOMAIN placeholders
       /\ requests[i].path = placeholders[requests[i].element.at].path
  /\ \A e \in Arrived : Fetches(e) = 0

\* every fetch is over: a fragment with an include of its own is in the
\* document, beside a placeholder with an empty path; one fetch was made
C21_Witness ==
  /\ Quiescent
  /\ Len(requests) = 1
  /\ \E p, q \in DOMAIN placeholders :
       /\ attached[p] /\ fetchState[p] = "done" /\ content[p].includes # <<>>
       /\ placeholders[q].path = "" /\ attached[q]
  /\ Arrived # {}

====
